---------------------------- MODULE Spec2Model ----------------------------
(***************************************************************************)
(* Acton SP2150 monochromator control library.                             *)
(*                                                                         *)
(* Three specifications over one set of variables:                         *)
(*   Spec        a caller's scoped (with) use of the instrument adapter    *)
(*               src/src/sp2150/sp2150.py, class sp2150                    *)
(*   SpecCLI     the command line program of the same file (__main__)      *)
(*   SpecVirtual the simulation stand-in                                   *)
(*               src/src/virtual_sp2150/virtual_sp2150.py, class sp2150    *)
(*                                                                         *)
(* Text (commands, replies, string parameters) is a sequence of one        *)
(* character strings, so that strip, endswith, float(), int() and the      *)
(* format specifications are computed character by character.              *)
(***************************************************************************)
EXTENDS Integers, Sequences, FiniteSets, TLC

VARIABLES
    pc,         \* position of the caller / of the command line program
    instr,      \* the session's transport handle attribute: "unset" | "set"
    transport,  \* the transport session itself: "none" | "open" | "closed"
    call,       \* the adapter call last made and what it did
    pending,    \* the exception in flight in the with body (NoError if none)
    observed,   \* the exception that leaves the with statement
    args,       \* the parsed command line (NoArgs outside SpecCLI)
    out,        \* standard output: the values printed
    vobj,       \* the virtual adapter's fields
    vlast       \* per attribute, the value most recently written to it

vars == <<pc, instr, transport, call, pending, observed, args, out, vobj, vlast>>

---------------------------------------------------------------------------
(* Characters and text                                                     *)

CR == "\r"
LF == "\n"

Digits == {"0", "1", "2", "3", "4", "5", "6", "7", "8", "9"}

DigitVal(c) ==
    CASE c = "0" -> 0 [] c = "1" -> 1 [] c = "2" -> 2 [] c = "3" -> 3
      [] c = "4" -> 4 [] c = "5" -> 5 [] c = "6" -> 6 [] c = "7" -> 7
      [] c = "8" -> 8 [] c = "9" -> 9

DigitChar(d) ==
    CASE d = 0 -> "0" [] d = 1 -> "1" [] d = 2 -> "2" [] d = 3 -> "3"
      [] d = 4 -> "4" [] d = 5 -> "5" [] d = 6 -> "6" [] d = 7 -> "7"
      [] d = 8 -> "8" [] d = 9 -> "9"

\* The characters str.strip(), float() and int() treat as white space.
Whitespace == {" ", CR, LF, "\t"}

\* The argument of the getters' strip: the characters of " ok\r\n".
StripChars == {" ", "o", "k", CR, LF}

\* The suffix the setters test for: "ok\r\n".
OkSuffix == <<"o", "k", CR, LF>>

\* The marker a successful reply ends with: " ok\r\n".
OkMarker == <<" ", "o", "k", CR, LF>>

\* str.endswith
EndsWith(s, suf) ==
    /\ Len(s) >= Len(suf)
    /\ SubSeq(s, Len(s) - Len(suf) + 1, Len(s)) = suf

RECURSIVE LStrip(_, _)
LStrip(s, cs) ==
    IF s # <<>> /\ Head(s) \in cs THEN LStrip(Tail(s), cs) ELSE s

RECURSIVE RStrip(_, _)
RStrip(s, cs) ==
    IF s # <<>> /\ s[Len(s)] \in cs THEN RStrip(SubSeq(s, 1, Len(s) - 1), cs) ELSE s

\* str.strip(chars): every leading and every trailing character that is in
\* chars is removed, whatever their order.
Strip(s, cs) == RStrip(LStrip(s, cs), cs)

RECURSIVE Pow10(_)
Pow10(n) == IF n = 0 THEN 1 ELSE 10 * Pow10(n - 1)

RECURSIVE DigitsVal(_)
DigitsVal(s) ==
    IF s = <<>> THEN 0 ELSE 10 * DigitsVal(SubSeq(s, 1, Len(s) - 1)) + DigitVal(s[Len(s)])

RECURSIVE NatText(_)
NatText(n) ==
    IF n < 10 THEN <<DigitChar(n)>> ELSE NatText(n \div 10) \o <<DigitChar(n % 10)>>

AllDigits(s) == \A i \in 1..Len(s) : s[i] \in Digits

---------------------------------------------------------------------------
(* Python values                                                           *)

None == [t |-> "None"]
PStr(s) == [t |-> "str", s |-> s]
PInt(n) == [t |-> "int", n |-> n]

\* A float is kept as an exact decimal: (-1)^neg * mant / 10^scale, with no
\* trailing zero in the fraction, so that equal numbers are equal values.
RECURSIVE PFloat(_, _, _)
PFloat(neg, mant, scale) ==
    IF scale > 0 /\ mant % 10 = 0
    THEN PFloat(neg, mant \div 10, scale - 1)
    ELSE [t |-> "float", neg |-> neg, mant |-> mant, scale |-> scale]

NoError == [kind |-> "none", msg |-> <<>>]
Error(kind, msg) == [kind |-> kind, msg |-> msg]

Ok(v) == [ok |-> TRUE, val |-> v, err |-> NoError]
Fail(kind) == [ok |-> FALSE, val |-> None, err |-> Error(kind, <<>>)]

\* The sign and the unsigned rest of a numeral.
SignOf(s) == s # <<>> /\ Head(s) = "-"
Unsigned(s) == IF s # <<>> /\ Head(s) \in {"-", "+"} THEN Tail(s) ELSE s

\* Position of the first "." of s, or 0.
PointAt(s) ==
    IF \E i \in 1..Len(s) : s[i] = "."
    THEN CHOOSE i \in 1..Len(s) : s[i] = "." /\ \A j \in 1..(i - 1) : s[j] # "."
    ELSE 0

\* float(x) on the decimal numerals: white space around the numeral is
\* ignored, then [sign] digits [. digits] or [sign] . digits.  Anything else
\* over the model's alphabet is a ValueError; None is a TypeError.
ParseFloat(s) ==
    LET t == Strip(s, Whitespace)
        u == Unsigned(t)
        p == PointAt(u)
        ip == IF p = 0 THEN u ELSE SubSeq(u, 1, p - 1)
        fp == IF p = 0 THEN <<>> ELSE SubSeq(u, p + 1, Len(u))
    IN  IF AllDigits(ip) /\ AllDigits(fp) /\ Len(ip) + Len(fp) > 0
        THEN Ok(PFloat(SignOf(t), DigitsVal(ip \o fp), Len(fp)))
        ELSE Fail("FormatError")

PyFloat(x) ==
    CASE x.t = "None"  -> Fail("TypeError")
      [] x.t = "str"   -> ParseFloat(x.s)
      [] x.t = "int"   -> Ok(PFloat(x.n < 0, IF x.n < 0 THEN -x.n ELSE x.n, 0))
      [] x.t = "float" -> Ok(x)

\* int(x): a string must be [sign] digits (white space around it ignored);
\* a float is truncated towards zero.
ParseInt(s) ==
    LET t == Strip(s, Whitespace)
        u == Unsigned(t)
    IN  IF u # <<>> /\ AllDigits(u)
        THEN Ok(PInt(IF SignOf(t) THEN -DigitsVal(u) ELSE DigitsVal(u)))
        ELSE Fail("FormatError")

PyInt(x) ==
    CASE x.t = "None"  -> Fail("TypeError")
      [] x.t = "str"   -> ParseInt(x.s)
      [] x.t = "int"   -> Ok(x)
      [] x.t = "float" ->
            LET q == x.mant \div Pow10(x.scale)
            IN  Ok(PInt(IF x.neg THEN -q ELSE q))

\* Mutant of Format1f: the float formatted without a format specification
\* (str(f)), which writes every decimal the number has.
FormatRepr(f) ==
    LET ds == NatText(f.mant)
        padded == IF Len(ds) <= f.scale
                  THEN [i \in 1..(f.scale + 1 - Len(ds)) |-> "0"] \o ds
                  ELSE ds
        n == Len(padded)
    IN  (IF f.neg THEN <<"-">> ELSE <<>>)
            \o SubSeq(padded, 1, n - f.scale) \o <<".">>
            \o (IF f.scale = 0 THEN <<"0">> ELSE SubSeq(padded, n - f.scale + 1, n))

\* format(f, ".1f"): the nearest number with one decimal place.  A tie is only
\* possible with two decimals ending in 5; for a multiple of 1/4 (exact in
\* binary) it goes to the even digit.  The other ties are decided by the
\* binary value of the float and are not among the inputs of this model.
Format1f(f) ==
    LET tenths ==
            IF f.scale = 0 THEN 10 * f.mant
            ELSE IF f.scale = 1 THEN f.mant
            ELSE LET unit == Pow10(f.scale - 1)
                     q == f.mant \div unit
                     r == f.mant % unit
                 IN  IF 2 * r > unit \/ (2 * r = unit /\ q % 2 = 1) THEN q + 1 ELSE q
    IN  (IF f.neg THEN <<"-">> ELSE <<>>)
            \o NatText(tenths \div 10) \o <<".">> \o <<DigitChar(tenths % 10)>>

\* format(n, "") of an int: str(n).
FormatInt(i) ==
    IF i.n < 0 THEN <<"-">> \o NatText(-i.n) ELSE NatText(i.n)

---------------------------------------------------------------------------
(* The instrument adapter: src/src/sp2150/sp2150.py                        *)

\* The largest length of a generated reply body.
MaxBody == 2

\* The characters reply bodies are generated from: what numerals are made of,
\* the characters of the marker that can occur in text, and a letter that is
\* neither.
BodyAlphabet == {"7", ".", "-", "o", "k", " ", "b"}

Bodies == UNION {[1..n -> BodyAlphabet] : n \in 0..MaxBody}

\* What follows the body: the marker, a bare line end, nothing.
Tails == {OkMarker, <<CR, LF>>, <<>>}

ExampleReplies ==
    { <<"1", "0", "0", "0", ".", "0", " ", "o", "k", CR, LF>>,
      <<"5", "0", "0", ".", "0", " ", "o", "k", CR, LF>>,
      <<"7", ".", "5", " ", "o", "k", CR, LF>>,
      <<"-", "7", " ", "o", "k", CR, LF>>,
      <<"b", "o", "o", "k", " ", "o", "k", CR, LF>>,
      <<"o", "k", " ", "7", " ", "o", "k", CR, LF>> }

\* The replies the instrument may give to a query.
Replies == {b \o t : b \in Bodies, t \in Tails} \cup ExampleReplies

\* The values a caller passes to a setter: numbers, numeric strings (the
\* command line passes strings), strings that are no numeral, and None (the
\* command line's parameter when -p is absent).
Params ==
    { None,
      PStr(<<"5", "0", "0">>), PStr(<<"2", ".", "5">>), PStr(<<" ", "7", " ">>),
      PStr(<<"1", ".", "2", "5">>), PStr(<<"9", ".", "9", "6">>),
      PStr(<<"a", "b", "c">>), PStr(<<>>),
      PInt(3), PFloat(FALSE, 175, 2), PFloat(TRUE, 314, 2) }

Q_NM_MIN   == <<"?", "N", "M", "/", "M", "I", "N">>
C_NM_MIN   == <<" ", "N", "M", "/", "M", "I", "N">>
C_NM       == <<" ", "N", "M">>
Q_NM       == <<"?", "N", "M">>
C_GOTO     == <<" ", "G", "O", "T", "O">>
Q_GRATING  == <<"?", "G", "R", "A", "T", "I", "N", "G">>
C_GRATING  == <<" ", "G", "R", "A", "T", "I", "N", "G">>
Q_TURRET   == <<"?", "T", "U", "R", "R", "E", "T">>
C_TURRET   == <<" ", "T", "U", "R", "R", "E", "T">>
Q_GRATINGS == <<"?", "G", "R", "A", "T", "I", "N", "G", "S">>
Q_TURRETS  == <<"?", "T", "U", "R", "R", "E", "T", "S">>
Q_FILTER   == <<"?", "F", "I", "L", "T", "E", "R">>
C_FILTER   == <<" ", "F", "I", "L", "T", "E", "R">>
C_FHOME    == <<"F", "H", "O", "M", "E">>

\* The text the validation error's message starts with (one element), to
\* which the reply is appended.
CommandFailed ==
    <<"Command failed. Check parameter and try again. Instrument response message: ">>

\* What a call did: the commands it sent, the replies it read, and the value
\* it returned or the exception it raised.
Returned(sent, reads, v) == [sent |-> sent, reads |-> reads, ret |-> v, err |-> NoError]
Raised(sent, reads, e) == [sent |-> sent, reads |-> reads, ret |-> None, err |-> e]

\* self.instr where connect never stored a handle.
NoInstr == Raised(<<>>, <<>>, Error("AttributeError", <<>>))

ValidationError(resp) == Error("ValidationError", CommandFailed \o resp)


\* self.instr.query(cmd): one command written, one reply read.
query(cmd, reply) == Returned(<<cmd>>, <<reply>>, PStr(reply))

\* Mutant of _setter_query: the reply is tested for " ok\r\n", space included.
setter_query_marker(cmd, reply) ==
    IF instr = "unset" THEN NoInstr
    ELSE LET q == query(cmd, reply)
             resp == q.ret.s
         IN  IF ~EndsWith(resp, OkMarker)
             THEN Raised(q.sent, q.reads, ValidationError(resp))
             ELSE Returned(q.sent, q.reads, None)

\* Mutant of _setter_query: a failed reply is answered by sending the command
\* once more.
setter_query_retry(cmd, reply) ==
    IF instr = "unset" THEN NoInstr
    ELSE LET q == query(cmd, reply)
             resp == q.ret.s
         IN  IF ~EndsWith(resp, OkSuffix)
             THEN LET again == query(cmd, reply)
                  IN  Raised(q.sent \o again.sent, q.reads \o again.reads,
                             ValidationError(again.ret.s))
             ELSE Returned(q.sent, q.reads, None)

_setter_query(cmd, reply) ==
    IF instr = "unset" THEN NoInstr
    ELSE LET q == query(cmd, reply)
             resp == q.ret.s
         IN  IF ~EndsWith(resp, OkSuffix)
             THEN Raised(q.sent, q.reads, ValidationError(resp))
             ELSE Returned(q.sent, q.reads, None)

\* The outcome of a getter whose reply, stripped, was converted to v.
converted(q, v) ==
    IF v.ok THEN Returned(q.sent, q.reads, v.val) ELSE Raised(q.sent, q.reads, v.err)

scan_speed_getter(reply) ==
    IF instr = "unset" THEN NoInstr
    ELSE LET q == query(Q_NM_MIN, reply)
         IN  converted(q, ParseFloat(Strip(q.ret.s, StripChars)))

\* The argument is formatted first, then _setter_query is called.
scan_speed_setter(speed, reply) ==
    LET f == PyFloat(speed)
    IN  IF ~f.ok THEN Raised(<<>>, <<>>, f.err)
        ELSE _setter_query(Format1f(f.val) \o C_NM_MIN, reply)

\* self.instr.query is looked up before its argument is evaluated; the check
\* of the reply is written out again here rather than shared.
scan_to_wavelength(wavelength, reply) ==
    IF instr = "unset" THEN NoInstr
    ELSE LET f == PyFloat(wavelength)
         IN  IF ~f.ok THEN Raised(<<>>, <<>>, f.err)
             ELSE LET q == query(Format1f(f.val) \o C_NM, reply)
                      resp == q.ret.s
                  IN  IF ~EndsWith(resp, OkSuffix)
                      THEN Raised(q.sent, q.reads, ValidationError(resp))
                      ELSE Returned(q.sent, q.reads, None)

wavelength_getter(reply) ==
    IF instr = "unset" THEN NoInstr
    ELSE LET q == query(Q_NM, reply)
         IN  converted(q, ParseFloat(Strip(q.ret.s, StripChars)))

wavelength_setter(wavelength, reply) ==
    LET f == PyFloat(wavelength)
    IN  IF ~f.ok THEN Raised(<<>>, <<>>, f.err)
        ELSE _setter_query(Format1f(f.val) \o C_GOTO, reply)

grating_getter(reply) ==
    IF instr = "unset" THEN NoInstr
    ELSE LET q == query(Q_GRATING, reply)
         IN  converted(q, ParseInt(Strip(q.ret.s, StripChars)))

grating_setter(grating, reply) ==
    LET i == PyInt(grating)
    IN  IF ~i.ok THEN Raised(<<>>, <<>>, i.err)
        ELSE _setter_query(FormatInt(i.val) \o C_GRATING, reply)

turret_getter(reply) ==
    IF instr = "unset" THEN NoInstr
    ELSE LET q == query(Q_TURRET, reply)
         IN  converted(q, ParseInt(Strip(q.ret.s, StripChars)))

turret_setter(turret, reply) ==
    LET i == PyInt(turret)
    IN  IF ~i.ok THEN Raised(<<>>, <<>>, i.err)
        ELSE _setter_query(FormatInt(i.val) \o C_TURRET, reply)

grating_info(reply) ==
    IF instr = "unset" THEN NoInstr
    ELSE LET q == query(Q_GRATINGS, reply)
         IN  Returned(q.sent, q.reads, PStr(Strip(q.ret.s, StripChars)))

turret_info(reply) ==
    IF instr = "unset" THEN NoInstr
    ELSE LET q == query(Q_TURRETS, reply)
         IN  Returned(q.sent, q.reads, PStr(Strip(q.ret.s, StripChars)))

filter_getter(reply) ==
    IF instr = "unset" THEN NoInstr
    ELSE LET q == query(Q_FILTER, reply)
         IN  converted(q, ParseInt(Strip(q.ret.s, StripChars)))

filter_setter(filter_pos, reply) ==
    LET i == PyInt(filter_pos)
    IN  IF ~i.ok THEN Raised(<<>>, <<>>, i.err)
        ELSE _setter_query(FormatInt(i.val) \o C_FILTER, reply)

\* The stripped reply is discarded.
home_filter(reply) ==
    IF instr = "unset" THEN NoInstr
    ELSE LET q == query(C_FHOME, reply)
         IN  Returned(q.sent, q.reads, None)

\* self.instr.close(); without a stored handle the attribute lookup fails.
disconnect ==
    IF instr = "unset"
    THEN [transport |-> transport, err |-> Error("AttributeError", <<>>)]
    ELSE [transport |-> "closed", err |-> NoError]

\* Mutant of __exit__: disconnect is called only when no exception is in
\* flight.
exit_unless_raising ==
    IF pending.kind = "none"
    THEN LET d == disconnect
         IN  /\ transport' = d.transport
             /\ observed' = d.err
    ELSE /\ transport' = transport
         /\ observed' = pending

\* __exit__ calls disconnect and returns None: an exception in flight goes on
\* to the caller, unless disconnect raises, and then that one does instead.
__exit__ ==
    LET d == disconnect
    IN  /\ transport' = d.transport
        /\ observed' = IF d.err.kind # "none" THEN d.err ELSE pending

---------------------------------------------------------------------------
(* Spec: a caller's with block around the adapter.  The block follows the   *)
(* shape of the one in the source: connect is called once, on the fresh     *)
(* object, and the calls follow; an exception leaves the block.             *)

\* The operations that take a parameter.
SetterOps ==
    {"set_scan_speed", "scan_to_wavelength", "goto_wavelength", "set_grating",
     "set_turret", "set_filter"}

NoCall ==
    [op |-> "none", arg |-> None, sent |-> <<>>, reads |-> <<>>, ret |-> None,
     err |-> NoError]

NoArgs == [function |-> "", parameter |-> None, resource_name |-> None]

VirtualInit ==
    [scan_speed |-> PInt(1000), wavelength |-> PInt(0), grating |-> PInt(1),
     turret |-> PInt(1), filter |-> PInt(1),
     grating_info |-> PStr(<<"dummy info">>), turret_info |-> PStr(<<"dummy info">>)]

Init ==
    /\ pc = "new"
    /\ instr = "unset"
    /\ transport = "none"
    /\ call = NoCall
    /\ pending = NoError
    /\ observed = NoError
    /\ args = NoArgs
    /\ out = <<>>
    /\ vobj = VirtualInit
    /\ vlast = VirtualInit

\* with sp2150() as mono:
enter ==
    /\ pc = "new"
    /\ pc' = "scope"
    /\ UNCHANGED <<instr, transport, call, pending, observed, args, out, vobj, vlast>>

\* mono.connect(resource_name): the resource manager opens the resource and
\* the handle is stored, or the open fails and nothing is stored.
connect ==
    /\ pc = "scope"
    /\ instr = "unset"
    /\ \E opened \in BOOLEAN :
         IF opened
         THEN /\ instr' = "set"
              /\ transport' = "open"
              /\ UNCHANGED <<pc, pending>>
         ELSE /\ pending' = Error("VisaIOError", <<>>)
              /\ pc' = "raising"
              /\ UNCHANGED <<instr, transport>>
    /\ UNCHANGED <<call, observed, args, out, vobj, vlast>>

\* One call of an adapter operation from the block: what it did is recorded,
\* and an exception it raised leaves the block.
Invoke(op, arg, o) ==
    /\ call' = [op |-> op, arg |-> arg, sent |-> o.sent, reads |-> o.reads,
                ret |-> o.ret, err |-> o.err]
    /\ IF o.err.kind = "none"
       THEN pc' = "called" /\ pending' = pending
       ELSE pc' = "raising" /\ pending' = o.err
    /\ UNCHANGED <<instr, transport, observed, args, out, vobj, vlast>>

get_scan_speed ==
    /\ pc = "scope"
    /\ \E r \in Replies : Invoke("get_scan_speed", None, scan_speed_getter(r))

set_scan_speed ==
    /\ pc = "scope"
    /\ \E p \in Params, r \in Replies : Invoke("set_scan_speed", p, scan_speed_setter(p, r))

call_scan_to_wavelength ==
    /\ pc = "scope"
    /\ \E p \in Params, r \in Replies : Invoke("scan_to_wavelength", p, scan_to_wavelength(p, r))

get_wavelength ==
    /\ pc = "scope"
    /\ \E r \in Replies : Invoke("get_wavelength", None, wavelength_getter(r))

goto_wavelength ==
    /\ pc = "scope"
    /\ \E p \in Params, r \in Replies : Invoke("goto_wavelength", p, wavelength_setter(p, r))

get_grating ==
    /\ pc = "scope"
    /\ \E r \in Replies : Invoke("get_grating", None, grating_getter(r))

set_grating ==
    /\ pc = "scope"
    /\ \E p \in Params, r \in Replies : Invoke("set_grating", p, grating_setter(p, r))

get_turret ==
    /\ pc = "scope"
    /\ \E r \in Replies : Invoke("get_turret", None, turret_getter(r))

set_turret ==
    /\ pc = "scope"
    /\ \E p \in Params, r \in Replies : Invoke("set_turret", p, turret_setter(p, r))

get_grating_info ==
    /\ pc = "scope"
    /\ \E r \in Replies : Invoke("get_grating_info", None, grating_info(r))

get_turret_info ==
    /\ pc = "scope"
    /\ \E r \in Replies : Invoke("get_turret_info", None, turret_info(r))

get_filter ==
    /\ pc = "scope"
    /\ \E r \in Replies : Invoke("get_filter", None, filter_getter(r))

set_filter ==
    /\ pc = "scope"
    /\ \E p \in Params, r \in Replies : Invoke("set_filter", p, filter_setter(p, r))

call_home_filter ==
    /\ pc = "scope"
    /\ \E r \in Replies : Invoke("home_filter", None, home_filter(r))

\* The call returned: the block goes on to its next statement.
resume ==
    /\ pc = "called"
    /\ pc' = "scope"
    /\ call' = NoCall
    /\ UNCHANGED <<instr, transport, pending, observed, args, out, vobj, vlast>>

\* The block ends, by reaching its end or by an exception.
leave ==
    /\ pc \in {"scope", "raising"}
    /\ __exit__
    /\ pc' = "done"
    /\ UNCHANGED <<instr, call, pending, args, out, vobj, vlast>>

Next ==
    \/ enter
    \/ connect
    \/ get_scan_speed
    \/ set_scan_speed
    \/ call_scan_to_wavelength
    \/ get_wavelength
    \/ goto_wavelength
    \/ get_grating
    \/ set_grating
    \/ get_turret
    \/ set_turret
    \/ get_grating_info
    \/ get_turret_info
    \/ get_filter
    \/ set_filter
    \/ call_home_filter
    \/ resume
    \/ leave

Spec == Init /\ [][Next]_vars


---------------------------------------------------------------------------
(* Properties of the adapter (Spec)                                        *)

FloatSetterOps == {"set_scan_speed", "scan_to_wavelength", "goto_wavelength"}

FloatGetterOps == {"get_scan_speed", "get_wavelength"}

IntGetterOps == {"get_grating", "get_turret", "get_filter"}

InfoGetterOps == {"get_grating_info", "get_turret_info"}

\* The command listed for each operation: a getter's whole command, a
\* setter's command after the number.
Listed(op) ==
    CASE op = "get_scan_speed"     -> Q_NM_MIN
      [] op = "set_scan_speed"     -> C_NM_MIN
      [] op = "scan_to_wavelength" -> C_NM
      [] op = "get_wavelength"     -> Q_NM
      [] op = "goto_wavelength"    -> C_GOTO
      [] op = "get_grating"        -> Q_GRATING
      [] op = "set_grating"        -> C_GRATING
      [] op = "get_turret"         -> Q_TURRET
      [] op = "set_turret"         -> C_TURRET
      [] op = "get_grating_info"   -> Q_GRATINGS
      [] op = "get_turret_info"    -> Q_TURRETS
      [] op = "get_filter"         -> Q_FILTER
      [] op = "set_filter"         -> C_FILTER
      [] op = "home_filter"        -> C_FHOME

Called == call.op # "none"

\* The call wrote to the transport and read its reply.
Replied == Called /\ call.reads # <<>>

TheReply == call.reads[1]

\* The argument of a setter coerces to the number its operation needs.
Coerced(op, arg) ==
    IF op \in FloatSetterOps THEN PyFloat(arg) ELSE PyInt(arg)

\* The reply without its trailing " ok\r\n", if it has one.
WithoutMarker(reply) ==
    IF EndsWith(reply, OkMarker)
    THEN SubSeq(reply, 1, Len(reply) - Len(OkMarker))
    ELSE reply

\* C1: an operation raises a validation error if and only if it is one of
\* the six setter-style operations and the reply it read does not end in
\* "ok\r\n"; the error's message then carries the reply unchanged; a setter
\* whose reply ends in "ok\r\n" returns nothing and raises nothing.
C1_ValidationIffSetterReplyNotOk ==
    Called =>
        /\ call.err.kind = "ValidationError"
             <=> (call.op \in SetterOps /\ Replied /\ ~EndsWith(TheReply, OkSuffix))
        /\ call.err.kind = "ValidationError"
             => call.err.msg = CommandFailed \o TheReply
        /\ (call.op \in SetterOps /\ Replied /\ EndsWith(TheReply, OkSuffix))
             => (call.err = NoError /\ call.ret = None)

C1_Witness ==
    /\ call.op = "set_grating"
    /\ call.err.kind = "ValidationError"
    /\ call.reads = << <<"7", CR, LF>> >>

C3_EveryCallOneRoundTrip ==
    (Called /\ instr = "set") =>
        /\ Len(call.sent) = 1
        /\ Len(call.reads) = 1
        /\ EndsWith(call.sent[1], Listed(call.op))

\* reply[i..j] is reply with nothing but marker characters cut from its ends.
CutFrom(reply, i, j) ==
    \A k \in (1..(i - 1)) \cup ((j + 1)..Len(reply)) : reply[k] \in StripChars

\* C3 (amended): a call that reaches the transport, that is one on a connected
\* session whose argument, if it is a setter, coerces to the number needed,
\* sends exactly one command, the one listed for it, and reads exactly one
\* reply; a call that fails before that sends and reads nothing; no call
\* sends twice, whatever the reply; and what a getter returns is taken from
\* the reply to its own query.
C3_OneRoundTripWhenTransportReached ==
    Called =>
        /\ Len(call.sent) <= 1
        /\ Len(call.reads) = Len(call.sent)
        /\ Len(call.sent) = 1
             <=> (instr = "set" /\ (call.op \in SetterOps => Coerced(call.op, call.arg).ok))
        /\ Len(call.sent) = 1 =>
             IF call.op \in SetterOps
             THEN EndsWith(call.sent[1], Listed(call.op))
             ELSE call.sent[1] = Listed(call.op)
        /\ (call.op \in InfoGetterOps /\ call.err = NoError)
             => \E i \in 1..(Len(TheReply) + 1), j \in 0..Len(TheReply) :
                    /\ CutFrom(TheReply, i, j)
                    /\ call.ret = PStr(SubSeq(TheReply, i, j))
        /\ (call.op \in FloatGetterOps /\ call.err = NoError)
             => \E i \in 1..(Len(TheReply) + 1), j \in 0..Len(TheReply) :
                    /\ CutFrom(TheReply, i, j)
                    /\ ParseFloat(SubSeq(TheReply, i, j)) = Ok(call.ret)
        /\ (call.op \in IntGetterOps /\ call.err = NoError)
             => \E i \in 1..(Len(TheReply) + 1), j \in 0..Len(TheReply) :
                    /\ CutFrom(TheReply, i, j)
                    /\ ParseInt(SubSeq(TheReply, i, j)) = Ok(call.ret)

C3_Witness ==
    /\ call.op = "goto_wavelength"
    /\ call.err.kind = "ValidationError"
    /\ Len(call.sent) = 1
    /\ Len(call.reads) = 1

\* C4 (as claimed): a numeric getter returns the number that the reply without
\* its trailing " ok\r\n" spells, and fails with a format error when that text
\* is not a number of the getter's type.
C4_GetterOutcomeByMarkerStrippedText ==
    (Replied /\ call.op \in FloatGetterOps \cup IntGetterOps) =>
        LET text == WithoutMarker(TheReply)
            p == IF call.op \in FloatGetterOps THEN ParseFloat(text) ELSE ParseInt(text)
        IN  IF p.ok
            THEN call.err = NoError /\ call.ret = p.val
            ELSE call.err.kind = "FormatError"

\* [-] digits . digit
OneDecimalText(s) ==
    LET u == IF s # <<>> /\ Head(s) = "-" THEN Tail(s) ELSE s
    IN  /\ Len(u) >= 3
        /\ u[Len(u) - 1] = "."
        /\ u[Len(u)] \in Digits
        /\ AllDigits(SubSeq(u, 1, Len(u) - 2))

\* [-] digits
IntegerText(s) ==
    LET u == IF s # <<>> /\ Head(s) = "-" THEN Tail(s) ELSE s
    IN  u # <<>> /\ AllDigits(u)

Abs(n) == IF n < 0 THEN -n ELSE n

\* The one-decimal text s is the number f rounded: same sign, and no more
\* than half a tenth away.
RoundsTo(s, f) ==
    LET u == IF s # <<>> /\ Head(s) = "-" THEN Tail(s) ELSE s
        tenths == DigitsVal(SubSeq(u, 1, Len(u) - 2) \o <<u[Len(u)]>>)
        unit == Pow10(f.scale)
    IN  /\ (Head(s) = "-") = f.neg
        /\ 2 * Abs(tenths * unit - 10 * f.mant) <= unit

C9_InfoGetterRemovesOnlyMarker ==
    (Replied /\ call.op \in InfoGetterOps /\ EndsWith(TheReply, OkMarker)) =>
        call.ret = PStr(SubSeq(TheReply, 1, Len(TheReply) - Len(OkMarker)))

\* C10 (as claimed): the exception that leaves the with statement is the one
\* the failing operation raised, and none when none was raised, also when
\* connect failed or was never called.
C10_ExitKeepsTheError ==
    pc = "done" => observed = pending


---------------------------------------------------------------------------
(* SpecCLI: the command line program, __main__ of sp2150.py                *)

\* choices= of the positional argument.
Choices ==
    {"set_scan_speed", "get_scan_speed", "scan_to_wavelength", "goto_wavelength",
     "get_wavelength", "set_grating", "get_grating", "set_turret", "get_turret",
     "get_grating_info", "get_turret_info", "set_filter", "get_filter",
     "home_filter"}

\* What a user may type as the function: a choice, or a name that is none.
Functions == Choices \cup {"set_wavelength", "home"}

\* -p: absent (None) or the string typed.
CliParameters == {p \in Params : p.t \in {"None", "str"}}

\* -n: absent (None) or the string typed.
ResourceNames == {None, PStr(<<"ASRL2::INSTR">>)}

InitCLI ==
    /\ pc = "argv"
    /\ args \in [function : Functions, parameter : CliParameters,
                 resource_name : ResourceNames]
    /\ instr = "unset"
    /\ transport = "none"
    /\ call = NoCall
    /\ pending = NoError
    /\ observed = NoError
    /\ out = <<>>
    /\ vobj = VirtualInit
    /\ vlast = VirtualInit

\* Mutant of parse_args: the positional argument is declared without choices.
parse_args_unchecked ==
    /\ pc = "argv"
    /\ pc' = "parsed"
    /\ UNCHANGED <<instr, transport, call, pending, observed, args, out, vobj, vlast>>

\* parser.parse_args(): a function that is not among the choices ends the
\* program with a usage error (exit status 2).
parse_args ==
    /\ pc = "argv"
    /\ pc' = IF args.function \in Choices THEN "parsed" ELSE "usage_error"
    /\ UNCHANGED <<instr, transport, call, pending, observed, args, out, vobj, vlast>>

\* with sp2150() as mono: mono.connect(args.resource_name)
main_connect ==
    /\ pc = "parsed"
    /\ \E opened \in BOOLEAN :
         IF opened
         THEN /\ instr' = "set"
              /\ transport' = "open"
              /\ pc' = "connected"
              /\ UNCHANGED pending
         ELSE /\ pending' = Error("VisaIOError", <<>>)
              /\ pc' = "main_raising"
              /\ UNCHANGED <<instr, transport>>
    /\ UNCHANGED <<call, observed, args, out, vobj, vlast>>

\* The if/elif chain over args.function; a name no branch tests calls nothing.
Dispatch(function, parameter, reply) ==
    CASE function = "set_scan_speed"     -> scan_speed_setter(parameter, reply)
      [] function = "get_scan_speed"     -> scan_speed_getter(reply)
      [] function = "scan_to_wavelength" -> scan_to_wavelength(parameter, reply)
      [] function = "goto_wavelength"    -> wavelength_setter(parameter, reply)
      [] function = "get_wavelength"     -> wavelength_getter(reply)
      [] function = "set_grating"        -> grating_setter(parameter, reply)
      [] function = "get_grating"        -> grating_getter(reply)
      [] function = "set_turret"         -> turret_setter(parameter, reply)
      [] function = "get_turret"         -> turret_getter(reply)
      [] function = "get_grating_info"   -> grating_info(reply)
      [] function = "get_turret_info"    -> turret_info(reply)
      [] function = "set_filter"         -> filter_setter(parameter, reply)
      [] function = "get_filter"         -> filter_getter(reply)
      [] function = "home_filter"        -> home_filter(reply)
      [] OTHER                           -> Returned(<<>>, <<>>, None)

\* The functions whose result is printed.
Printed ==
    {"get_scan_speed", "get_wavelength", "get_grating", "get_turret",
     "get_grating_info", "get_turret_info", "get_filter"}

main_dispatch ==
    /\ pc = "connected"
    /\ \E r \in Replies :
         LET o == Dispatch(args.function, args.parameter, r)
         IN  /\ call' = [op |-> IF args.function \in Choices THEN args.function ELSE "none",
                         arg |-> IF args.function \in SetterOps THEN args.parameter ELSE None,
                         sent |-> o.sent, reads |-> o.reads, ret |-> o.ret, err |-> o.err]
             /\ IF o.err.kind = "none"
                THEN /\ pc' = "body_done"
                     /\ pending' = pending
                     /\ out' = IF args.function \in Printed THEN <<o.ret>> ELSE out
                ELSE /\ pc' = "main_raising"
                     /\ pending' = o.err
                     /\ out' = out
    /\ UNCHANGED <<instr, transport, observed, args, vobj, vlast>>

\* The with statement ends; an exception that leaves it ends the program with
\* a traceback and a non-zero exit status.
main_exit ==
    /\ pc \in {"body_done", "main_raising"}
    /\ __exit__
    /\ pc' = "done"
    /\ UNCHANGED <<instr, call, pending, args, out, vobj, vlast>>

NextCLI ==
    \/ parse_args
    \/ main_connect
    \/ main_dispatch
    \/ main_exit

SpecCLI == InitCLI /\ [][NextCLI]_vars

\* C6: a command line whose function is not one of the fourteen choices is
\* rejected when the arguments are parsed: no transport is opened, no command
\* is sent and no close is attempted.
C6_UnknownFunctionRejectedBeforeTransport ==
    args.function \notin Choices =>
        /\ pc \in {"argv", "usage_error"}
        /\ instr = "unset"
        /\ transport = "none"
        /\ call = NoCall
        /\ observed = NoError

C6_Witness ==
    /\ pc = "usage_error"
    /\ args.function = "set_wavelength"
    /\ args.resource_name # None

\* C7 (as claimed): a run with a valid function name, on which the transport
\* opened, ends with an exception only if that is a validation error or a
\* format error.
C7_OnlyValidationOrFormatErrors ==
    (pc = "done" /\ args.function \in Choices /\ transport = "closed"
        /\ observed # NoError)
      => observed.kind \in {"ValidationError", "FormatError"}

---------------------------------------------------------------------------
(* SpecVirtual: the simulation stand-in, virtual_sp2150.py                 *)

v_scan_speed_getter(self) == self.scan_speed

v_scan_speed_setter(self, speed) == [self EXCEPT !.scan_speed = speed]

\* Mutant of v_scan_to_wavelength: the value is stored in the scan speed.
v_scan_to_wavelength_speed(self, wavelength) == [self EXCEPT !.scan_speed = wavelength]

v_scan_to_wavelength(self, wavelength) == [self EXCEPT !.wavelength = wavelength]

v_wavelength_getter(self) == self.wavelength

v_wavelength_setter(self, wavelength) == [self EXCEPT !.wavelength = wavelength]

v_grating_getter(self) == self.grating

v_grating_setter(self, grating) == [self EXCEPT !.grating = grating]

v_turret_getter(self) == self.turret

v_turret_setter(self, turret) == [self EXCEPT !.turret = turret]

v_grating_info(self) == self.grating_info

v_turret_info(self) == self.turret_info

v_filter_getter(self) == self.filter

v_filter_setter(self, filter_pos) == [self EXCEPT !.filter = filter_pos]

v_home_filter(self) == [self EXCEPT !.filter = PInt(1)]

\* The values a caller stores: a float, an int, a string from a command line.
VirtualValues ==
    {PFloat(FALSE, 500, 0), PInt(2), PStr(<<"7">>)}

\* The attribute an operation writes, and the value it leaves there.
Written(last, op, arg) ==
    CASE op = "set_scan_speed"     -> [last EXCEPT !.scan_speed = arg]
      [] op = "scan_to_wavelength" -> [last EXCEPT !.wavelength = arg]
      [] op = "goto_wavelength"    -> [last EXCEPT !.wavelength = arg]
      [] op = "set_grating"        -> [last EXCEPT !.grating = arg]
      [] op = "set_turret"         -> [last EXCEPT !.turret = arg]
      [] op = "set_filter"         -> [last EXCEPT !.filter = arg]
      [] op = "home_filter"        -> [last EXCEPT !.filter = PInt(1)]
      [] OTHER                     -> last

\* One call on the virtual adapter: the object after it and what it returned.
VInvoke(op, arg, self, ret) ==
    /\ vobj' = self
    /\ vlast' = Written(vlast, op, arg)
    /\ call' = [op |-> op, arg |-> arg, sent |-> <<>>, reads |-> <<>>, ret |-> ret,
                err |-> NoError]
    /\ UNCHANGED <<pc, instr, transport, pending, observed, args, out>>

v_get_scan_speed == VInvoke("get_scan_speed", None, vobj, v_scan_speed_getter(vobj))

v_set_scan_speed ==
    \E v \in VirtualValues : VInvoke("set_scan_speed", v, v_scan_speed_setter(vobj, v), None)

v_call_scan_to_wavelength ==
    \E v \in VirtualValues :
        VInvoke("scan_to_wavelength", v, v_scan_to_wavelength(vobj, v), None)

v_get_wavelength == VInvoke("get_wavelength", None, vobj, v_wavelength_getter(vobj))

v_goto_wavelength ==
    \E v \in VirtualValues : VInvoke("goto_wavelength", v, v_wavelength_setter(vobj, v), None)

v_get_grating == VInvoke("get_grating", None, vobj, v_grating_getter(vobj))

v_set_grating ==
    \E v \in VirtualValues : VInvoke("set_grating", v, v_grating_setter(vobj, v), None)

v_get_turret == VInvoke("get_turret", None, vobj, v_turret_getter(vobj))

v_set_turret ==
    \E v \in VirtualValues : VInvoke("set_turret", v, v_turret_setter(vobj, v), None)

v_get_grating_info == VInvoke("get_grating_info", None, vobj, v_grating_info(vobj))

v_get_turret_info == VInvoke("get_turret_info", None, vobj, v_turret_info(vobj))

v_get_filter == VInvoke("get_filter", None, vobj, v_filter_getter(vobj))

v_set_filter ==
    \E v \in VirtualValues : VInvoke("set_filter", v, v_filter_setter(vobj, v), None)

v_call_home_filter == VInvoke("home_filter", None, v_home_filter(vobj), None)

InitVirtual ==
    /\ pc = "virtual"
    /\ instr = "unset"
    /\ transport = "none"
    /\ call = NoCall
    /\ pending = NoError
    /\ observed = NoError
    /\ args = NoArgs
    /\ out = <<>>
    /\ vobj = VirtualInit
    /\ vlast = VirtualInit

NextVirtual ==
    \/ v_get_scan_speed
    \/ v_set_scan_speed
    \/ v_call_scan_to_wavelength
    \/ v_get_wavelength
    \/ v_goto_wavelength
    \/ v_get_grating
    \/ v_set_grating
    \/ v_get_turret
    \/ v_set_turret
    \/ v_get_grating_info
    \/ v_get_turret_info
    \/ v_get_filter
    \/ v_set_filter
    \/ v_call_home_filter

SpecVirtual == InitVirtual /\ [][NextVirtual]_vars

\* The attribute a getter reads.
ReadAttribute(last, op) ==
    CASE op = "get_scan_speed"   -> last.scan_speed
      [] op = "get_wavelength"   -> last.wavelength
      [] op = "get_grating"      -> last.grating
      [] op = "get_turret"       -> last.turret
      [] op = "get_grating_info" -> last.grating_info
      [] op = "get_turret_info"  -> last.turret_info
      [] op = "get_filter"       -> last.filter

\* C8: the virtual adapter is a set of last-write-wins registers: every
\* attribute holds the value most recently written to it (set wavelength and
\* scan to wavelength both write the wavelength, home filter writes 1 to the
\* filter) or its initial default, a getter returns that value, a setter
\* returns nothing, and a call leaves every other attribute as it was.
C8_VirtualLastWriteWins ==
    /\ vobj = vlast
    /\ call.op \in Printed => call.ret = ReadAttribute(vlast, call.op)
    /\ (Called /\ call.op \notin Printed) => call.ret = None
    /\ call.op = "home_filter" => vobj.filter = PInt(1)

C8_Witness ==
    /\ call.op = "get_wavelength"
    /\ call.ret = PFloat(FALSE, 500, 0)
    /\ vobj.filter = PInt(1)
    /\ vobj.grating = PStr(<<"7">>)

=============================================================================
